---------------------------- MODULE Spec2Model ----------------------------
(***************************************************************************)
(* A model of the algorithmic core of lob-sdk: the binary-heap             *)
(* PriorityQueue, the Douglas-Peucker path simplifier, Vector2, Vector3    *)
(* and Vector2Set, the median and angle utilities, the EventEmitter and    *)
(* the FormationManager.                                                   *)
(*                                                                         *)
(* Numbers.  Priorities and coordinates are drawn from small ranges of     *)
(* integers, on which the float64 arithmetic of the source is exact.  A    *)
(* perpendicular distance num / sqrt(den2) is kept as the pair             *)
(* (num, den2) and compared by cross-multiplication of squares, which is   *)
(* what the comparison of the two quotients decides; 0/0 is NaN and        *)
(* compares false with everything, as in the source's arithmetic.          *)
(***************************************************************************)
EXTENDS Integers, Sequences, FiniteSets, TLC

VARIABLES
    \* ---- PriorityQueue (src/src/priority-queue/priority-queue.ts)
    items,      \* this.items: the heap array of [item, priority]
    compare,    \* this.compare: the comparator fixed at construction
    ret,        \* the value the last call returned
    threw,      \* TRUE iff the last call raised an error
    lastOp,     \* the last call made on the queue
    drained,    \* the [item, priority] pairs removed by the dequeues made
                \* since the last enqueue or clear, in order
    held,       \* how many times each pair was enqueued since the last
                \* clear, less how many times it was dequeued since
    \* ---- douglasPeucker (src/unnamed/part_002)
    path,       \* the caller's path
    epsilon,    \* the tolerance of the first call, in units of 1/TolDen
    out,        \* the result of the first call
    path2,      \* the argument of the second call
    epsilon2,   \* the tolerance of the second call
    out2,       \* the result of the second call
    dpPc        \* "input", "once" (one call made), "twice"

VARIABLES
    \* ---- Vector2 and Vector2Set (src/unnamed/part_000)
    heap,       \* the Vector2 objects: heap[r] is the object at reference r
    map,        \* this.map of the caller's Vector2Set: [key, ref] entries
                \* in insertion order
    map2,       \* this.map of the set the last filter returned
    hasSet2,    \* TRUE iff filter has returned a set
    vsOp,       \* the last call: [op, set, ref, pred]
    vsRet       \* what the last call returned

VARIABLES
    \* ---- calls on Vector2 and Vector3 (src/unnamed/part_000,
    \*      src/src/vector/vector3.ts)
    heap3,      \* the Vector3 objects: heap3[r] is the object at reference r
    vOp,        \* the last call: [op, ref, arg, coll]
    vRet,       \* the reference the last call returned; 0 is null / nothing
    vThrew      \* the message of the error the last call threw, "" if none

VARIABLES
    \* ---- median and medianPoint (src/src/utils/utils.ts)
    values,     \* the caller's array of numbers
    points,     \* the caller's array of points
    radians,    \* the angle handed to radiansToDegreesNormalized, as the
                \* number of 1/AngDen degrees it measures
    mOp,        \* the last call: [op, arg], arg the array as it was passed
    mRet        \* what the last call returned

VARIABLES
    \* ---- EventEmitter (src/src/event-emitter/event-emitter.ts)
    listeners,  \* this.listeners: for each event whether the map has an
                \* array for it, and the listeners of that array in order
    emitting,   \* the emit call that is running, if one is: its event and
                \* argument, the array forEach goes over, whether that array
                \* is still the one in the map, the length forEach took at
                \* its start and the position it is at
    calls,      \* the [listener, arg] invocations of the last emit, in order
    registered, \* for each event the list got by appending l at on(e, l)
                \* and deleting every l at off(e, l)
    atEmit,     \* registered[e] as it was when the last emit(e) was called
    reentered,  \* TRUE iff a listener called on or off during the last emit
    eeOp        \* the last call made on the emitter from outside an emit

VARIABLES
    \* ---- FormationManager (src/src/game-data-manager/formation-manager.ts)
    formationMap,   \* this._formationMap
    immuneTypes,    \* this._friendlyFireImmuneDamageTypes
    latest,         \* for each id the template of that id that was
                    \* handed to load last, if one was
    fmOp,           \* the last call: [op, id, damageType]
    fmRet           \* what the last query returned

pqVars == <<items, compare, ret, threw, lastOp, drained, held>>
dpVars == <<path, epsilon, out, path2, epsilon2, out2, dpPc>>
vsVars == <<heap, map, map2, hasSet2, vsOp, vsRet>>
v2Vars == <<heap3, vOp, vRet, vThrew>>
utVars == <<values, points, radians, mOp, mRet>>
eeVars == <<listeners, emitting, calls, registered, atEmit, reentered, eeOp>>
fmVars == <<formationMap, immuneTypes, latest, fmOp, fmRet>>
vars == <<pqVars, dpVars, vsVars, v2Vars, utVars, eeVars, fmVars>>

\* What the calls on a queue leave alone, and what douglasPeucker does.
pqFrame == <<dpVars, vsVars, v2Vars, utVars, eeVars, fmVars>>
dpFrame == <<pqVars, vsVars, v2Vars, utVars, eeVars, fmVars>>
vsFrame == <<pqVars, dpVars, v2Vars, utVars, eeVars, fmVars>>
v2Frame ==
    <<pqVars, dpVars, map, map2, hasSet2, vsOp, vsRet, utVars, eeVars, fmVars>>
utFrame == <<pqVars, dpVars, vsVars, v2Vars, eeVars, fmVars>>
eeFrame == <<pqVars, dpVars, vsVars, v2Vars, utVars, fmVars>>
fmFrame == <<pqVars, dpVars, vsVars, v2Vars, utVars, eeVars>>

----------------------------------------------------------------------------
(* Bounds *)

MaxSize == 5        \* most entries the queue holds
MaxPrio == 3        \* priorities are 1..MaxPrio
MaxLen == 4         \* longest input path
MaxX == 2           \* x coordinates are 0..MaxX
MaxY == 1           \* y coordinates are 0..MaxY
MaxTol == 2         \* tolerances are 0/TolDen .. MaxTol/TolDen
TolDen == 2         \* denominator of the tolerances
NumVecs == 3        \* Vector2 objects the caller holds
MaxV == 1           \* their coordinates are 0..MaxV
MaxSetY == 0        \* y coordinates of the vectors put in sets: 0..MaxSetY
MaxVals == 4        \* longest array handed to median
MaxVal == 2         \* its numbers are -1..MaxVal
MaxPts == 3         \* longest array handed to medianPoint
AngDen == 4         \* angles are whole numbers of 1/AngDen degree
MaxTurns == 2       \* an angle is at most MaxTurns full turns either way
MaxAng == 12        \* plus at most MaxAng / AngDen degrees either way
MaxReg == 3         \* most registrations an event has
MaxLoad == 2        \* most templates handed to one load

Items == {"A", "B"}
Priorities == 1..MaxPrio
Undefined == "undefined"
Comparators == {"asc", "desc"}

----------------------------------------------------------------------------
(* PriorityQueue *)

\* The comparator: the default (a, b) => a - b, or the descending
\* (a, b) => b - a handed to the constructor.
Compare(a, b) == IF compare = "asc" THEN a - b ELSE b - a

\* items[i] of the source (0-based).
At(its, i) == its[i + 1]

SwapCopy(its, i, j) == [its EXCEPT ![i + 1] = its[j + 1]]

Swap(its, i, j) == [its EXCEPT ![i + 1] = its[j + 1], ![j + 1] = its[i + 1]]

heapifyUpNoSift(its, index) == its

RECURSIVE heapifyUp(_, _)
heapifyUp(its, current) ==
    IF current > 0
    THEN LET parent == (current - 1) \div 2 IN
         IF Compare(At(its, current).priority, At(its, parent).priority) >= 0
         THEN its
         ELSE heapifyUp(Swap(its, current, parent), parent)
    ELSE its

RECURSIVE heapifyDownLeftOnly(_, _)
heapifyDownLeftOnly(its, current) ==
    LET length == Len(its)
        left == 2 * current + 1
        smallest == IF left < length
                       /\ Compare(At(its, left).priority,
                                  At(its, current).priority) < 0
                    THEN left ELSE current
    IN  IF smallest = current THEN its
        ELSE heapifyDownLeftOnly(Swap(its, current, smallest), smallest)

RECURSIVE heapifyDown(_, _)
heapifyDown(its, current) ==
    LET length == Len(its)
        left == 2 * current + 1
        right == left + 1
        s1 == IF left < length
                 /\ Compare(At(its, left).priority,
                            At(its, current).priority) < 0
              THEN left ELSE current
        smallest == IF right < length
                       /\ Compare(At(its, right).priority,
                                  At(its, s1).priority) < 0
                    THEN right ELSE s1
    IN  IF smallest = current THEN its
        ELSE heapifyDown(Swap(its, current, smallest), smallest)

\* enqueue(item, priority): push, then heapifyUp(length - 1).
enqueue(its, item, priority) ==
    LET pushed == Append(its, [item |-> item, priority |-> priority])
    IN  heapifyUp(pushed, Len(pushed) - 1)

Pop(its) == SubSeq(its, 1, Len(its) - 1)

\* dequeue without the length === 0 guard: items[0].item of an empty
\* array raises a TypeError.
dequeueNoGuard(its) ==
    IF Len(its) = 0
    THEN [items |-> its, ret |-> Undefined, threw |-> TRUE]
    ELSE IF Len(its) = 1
    THEN [items |-> Pop(its), ret |-> At(its, 0).item, threw |-> FALSE]
    ELSE [items |-> heapifyDown([Pop(its) EXCEPT ![1] = its[Len(its)]], 0),
          ret |-> At(its, 0).item, threw |-> FALSE]

\* dequeue(): the new array, the value returned, and whether it raised.
dequeue(its) ==
    IF Len(its) = 0
    THEN [items |-> its, ret |-> Undefined, threw |-> FALSE]
    ELSE IF Len(its) = 1
    THEN [items |-> Pop(its), ret |-> At(its, 0).item, threw |-> FALSE]
    ELSE [items |-> heapifyDown([Pop(its) EXCEPT ![1] = its[Len(its)]], 0),
          ret |-> At(its, 0).item, threw |-> FALSE]

peekLast(its) == IF Len(its) > 0 THEN At(its, Len(its) - 1).item ELSE Undefined

\* peek(): the value returned.
peek(its) == IF Len(its) > 0 THEN At(its, 0).item ELSE Undefined

isEmpty(its) == Len(its) = 0

size(its) == Len(its)

\* No pair is held.
NoneHeld == [pr \in [item : Items, priority : Priorities] |-> 0]

Enqueue(item, priority) ==
    /\ Len(items) < MaxSize
    /\ items' = enqueue(items, item, priority)
    /\ ret' = Undefined
    /\ threw' = FALSE
    /\ lastOp' = "enqueue"
    /\ drained' = <<>>
    /\ held' = [held EXCEPT ![[item |-> item, priority |-> priority]] = @ + 1]
    /\ UNCHANGED <<compare, pqFrame>>

Dequeue ==
    LET r == dequeue(items) IN
    /\ items' = r.items
    /\ ret' = r.ret
    /\ threw' = r.threw
    /\ lastOp' = "dequeue"
    /\ drained' = IF Len(items) = 0 \/ r.threw THEN drained
                  ELSE Append(drained, At(items, 0))
    /\ held' = IF Len(items) = 0 \/ r.threw THEN held
               ELSE [held EXCEPT ![At(items, 0)] = @ - 1]
    /\ UNCHANGED <<compare, pqFrame>>

Peek ==
    /\ ret' = peek(items)
    /\ threw' = FALSE
    /\ lastOp' = "peek"
    /\ UNCHANGED <<items, compare, drained, held, pqFrame>>

Clear ==
    /\ items' = <<>>
    /\ ret' = Undefined
    /\ threw' = FALSE
    /\ lastOp' = "clear"
    /\ drained' = <<>>
    /\ held' = NoneHeld
    /\ UNCHANGED <<compare, pqFrame>>

----------------------------------------------------------------------------
(* douglasPeucker *)

Abs(n) == IF n < 0 THEN -n ELSE n

\* A float64 value num / sqrt(den2): 0/0 is NaN, n/0 is +-Infinity.
Quot(num, den2) == [num |-> num, den2 |-> den2]

IsNaN(a) == a.den2 = 0 /\ a.num = 0

\* a > b as the source's arithmetic decides it: false when either is NaN.
Greater(a, b) ==
    /\ ~IsNaN(a)
    /\ ~IsNaN(b)
    /\ CASE a.den2 = 0 /\ b.den2 = 0 -> a.num > 0 /\ b.num < 0
         [] a.den2 = 0 /\ b.den2 # 0 -> a.num > 0
         [] a.den2 # 0 /\ b.den2 = 0 -> b.num < 0
         [] OTHER ->
              CASE a.num >= 0 /\ b.num >= 0 ->
                       a.num * a.num * b.den2 > b.num * b.num * a.den2
                [] a.num >= 0 /\ b.num < 0 -> TRUE
                [] a.num < 0 /\ b.num >= 0 -> FALSE
                [] OTHER ->
                       a.num * a.num * b.den2 < b.num * b.num * a.den2

\* The tolerance e / TolDen as a value.
Tolerance(e) == Quot(e, TolDen * TolDen)

\* The distance with the distance to lineStart taken when lineStart and
\* lineEnd coincide.
perpendicularDistanceToPoint(point, lineStart, lineEnd) ==
    LET x0 == point.x
        y0 == point.y
        x1 == lineStart.x
        y1 == lineStart.y
        x2 == lineEnd.x
        y2 == lineEnd.y
        num == Abs((y2 - y1) * x0 - (x2 - x1) * y0 + x2 * y1 - y2 * x1)
        den2 == (y2 - y1) * (y2 - y1) + (x2 - x1) * (x2 - x1)
    IN  IF den2 = 0
        THEN Quot((x0 - x1) * (x0 - x1) + (y0 - y1) * (y0 - y1),
                  (x0 - x1) * (x0 - x1) + (y0 - y1) * (y0 - y1))
        ELSE Quot(num, den2)

perpendicularDistance(point, lineStart, lineEnd) ==
    LET x0 == point.x
        y0 == point.y
        x1 == lineStart.x
        y1 == lineStart.y
        x2 == lineEnd.x
        y2 == lineEnd.y
        num == Abs((y2 - y1) * x0 - (x2 - x1) * y0 + x2 * y1 - y2 * x1)
        den2 == (y2 - y1) * (y2 - y1) + (x2 - x1) * (x2 - x1)
    IN  Quot(num, den2)

\* The loop with the distance taken to the line through the point's two
\* neighbours instead of the line through the path's first and last points.
RECURSIVE FurthestFromNeighbours(_, _, _, _)
FurthestFromNeighbours(p, i, maxDist, index) ==
    IF i < Len(p) - 1
    THEN LET dist == perpendicularDistance(p[i + 1], p[i], p[i + 2])
         IN  IF Greater(dist, maxDist)
             THEN FurthestFromNeighbours(p, i + 1, dist, i)
             ELSE FurthestFromNeighbours(p, i + 1, maxDist, index)
    ELSE [maxDist |-> maxDist, index |-> index]

\* The loop without the assignment maxDist = dist.
RECURSIVE FurthestFromNoMax(_, _, _, _)
FurthestFromNoMax(p, i, maxDist, index) ==
    IF i < Len(p) - 1
    THEN LET dist == perpendicularDistance(p[i + 1], p[1], p[Len(p)])
         IN  IF Greater(dist, maxDist)
             THEN FurthestFromNoMax(p, i + 1, maxDist, i)
             ELSE FurthestFromNoMax(p, i + 1, maxDist, index)
    ELSE [maxDist |-> maxDist, index |-> index]

\* The loop with dist >= maxDist as its comparison: the last of several
\* equally distant points wins.
RECURSIVE FurthestFromLastTie(_, _, _, _)
FurthestFromLastTie(p, i, maxDist, index) ==
    IF i < Len(p) - 1
    THEN LET dist == perpendicularDistance(p[i + 1], p[1], p[Len(p)])
         IN  IF ~IsNaN(dist) /\ ~Greater(maxDist, dist)
             THEN FurthestFromLastTie(p, i + 1, dist, i)
             ELSE FurthestFromLastTie(p, i + 1, maxDist, index)
    ELSE [maxDist |-> maxDist, index |-> index]

\* The loop of findFurthestPoint from index i (0-based) on.
RECURSIVE FurthestFrom(_, _, _, _)
FurthestFrom(p, i, maxDist, index) ==
    IF i < Len(p) - 1
    THEN LET dist == perpendicularDistance(p[i + 1], p[1], p[Len(p)])
         IN  IF Greater(dist, maxDist)
             THEN FurthestFrom(p, i + 1, dist, i)
             ELSE FurthestFrom(p, i + 1, maxDist, index)
    ELSE [maxDist |-> maxDist, index |-> index]

\* findFurthestPoint with the last comparison turned round.
findFurthestPointInverted(p, eps) ==
    LET r == FurthestFrom(p, 1, Quot(-1, 1), -1)
    IN  IF Greater(Tolerance(eps), r.maxDist) THEN r.index ELSE -1

\* findFurthestPoint with maxDist >= epsilon as the last comparison.
findFurthestPointOrEqual(p, eps) ==
    LET r == FurthestFrom(p, 1, Quot(-1, 1), -1)
    IN  IF ~IsNaN(r.maxDist) /\ ~Greater(Tolerance(eps), r.maxDist)
        THEN r.index ELSE -1

findFurthestPoint(p, eps) ==
    LET r == FurthestFrom(p, 1, Quot(-1, 1), -1)
    IN  IF Greater(r.maxDist, Tolerance(eps)) THEN r.index ELSE -1

\* path.slice(from, to) of the source (0-based, to exclusive).
Slice(p, from, to) == SubSeq(p, from + 1, to)

TooShortBelowOne(p) == Len(p) < 1

\* path.length < 3
TooShort(p) == Len(p) < 3

CollapseOffByOne(p) == <<p[1], p[Len(p) - 1]>>

\* [path[0], path[path.length - 1]]
Collapse(p) == <<p[1], p[Len(p)]>>

MergeKeepBoth(left, right) == left \o right

MergeDropSplit(left, right) == Slice(left, 0, Len(left) - 1) \o Tail(right)

\* left.slice(0, -1).concat(right)
Merge(left, right) == Slice(left, 0, Len(left) - 1) \o right

RECURSIVE douglasPeucker(_, _)
douglasPeucker(p, eps) ==
    IF TooShort(p)
    THEN p
    ELSE LET index == findFurthestPoint(p, eps) IN
         IF index = -1
         THEN Collapse(p)
         ELSE Merge(douglasPeucker(Slice(p, 0, index + 1), eps),
                    douglasPeucker(Slice(p, index, Len(p)), eps))

Tolerances == 0..MaxTol

\* The caller's points: integer coordinates, and an extra field id that
\* holds the point's index in the caller's path.
Coords == (0..MaxX) \X (0..MaxY)

PathOf(c) ==
    [i \in 1..Len(c) |-> [x |-> c[i][1], y |-> c[i][2], id |-> i - 1]]

\* The caller simplifies its path.
Simplify(eps) ==
    /\ dpPc = "input"
    /\ epsilon' = eps
    /\ out' = douglasPeucker(path, eps)
    /\ dpPc' = "once"
    /\ UNCHANGED <<path, path2, epsilon2, out2, dpFrame>>

\* The caller simplifies the result again, with the same tolerance.
SimplifyAgain ==
    /\ dpPc = "once"
    /\ path2' = out
    /\ epsilon2' = epsilon
    /\ out2' = douglasPeucker(out, epsilon)
    /\ dpPc' = "twice"
    /\ UNCHANGED <<path, epsilon, out, dpFrame>>

\* The caller simplifies the same path with a larger tolerance.
SimplifyLooser(eps) ==
    /\ dpPc = "once"
    /\ eps > epsilon
    /\ path2' = path
    /\ epsilon2' = eps
    /\ out2' = douglasPeucker(path, eps)
    /\ dpPc' = "twice"
    /\ UNCHANGED <<path, epsilon, out, dpFrame>>

----------------------------------------------------------------------------
(* Vector2 *)

\* Vector2 components are numbers num / sqrt(den2); the integer n is n / 1.
Num(n) == Quot(n, 1)

\* a === b on numbers.
NumEq(a, b) == ~IsNaN(a) /\ ~IsNaN(b) /\ ~Greater(a, b) /\ ~Greater(b, a)

\* new Vector2(x, y): the heap with the new object at its end.
New(h, x, y) == Append(h, [x |-> x, y |-> y])

\* The reference of the object the last New made.
Newest(h) == Len(h)

\* addValue(x, y): this.x += x; this.y += y (integers).
addValue(h, r, dx, dy) ==
    [h EXCEPT ![r] = [x |-> Num(@.x.num + dx), y |-> Num(@.y.num + dy)]]

Digit(d) ==
    CASE d = 0 -> "0" [] d = 1 -> "1" [] d = 2 -> "2" [] d = 3 -> "3"
      [] d = 4 -> "4" [] d = 5 -> "5" [] d = 6 -> "6" [] d = 7 -> "7"
      [] d = 8 -> "8" [] d = 9 -> "9"

RECURSIVE NatToString(_)
NatToString(n) ==
    IF n < 10 THEN Digit(n) ELSE NatToString(n \div 10) \o Digit(n % 10)

\* `${n}` for an integer n.
NumberToString(a) ==
    IF a.num < 0 THEN "-" \o NatToString(-a.num) ELSE NatToString(a.num)

\* toString(): `${this.x},${this.y}`
toString(v) == NumberToString(v.x) \o "," \o NumberToString(v.y)

\* Vector2.equal(v1, v2)
equal(v1, v2) == NumEq(v1.x, v2.x) /\ NumEq(v1.y, v2.y)

----------------------------------------------------------------------------
(* Vector2Set *)

Keys(m) == {m[i].key : i \in DOMAIN m}

\* Map.prototype.set: the value of an existing key is replaced where the
\* key stands, a new key goes to the end.
MapSet(m, key, ref) ==
    IF key \in Keys(m)
    THEN [i \in DOMAIN m |->
             IF m[i].key = key THEN [key |-> key, ref |-> ref] ELSE m[i]]
    ELSE Append(m, [key |-> key, ref |-> ref])

\* add(vector)
setAdd(m, h, r) == MapSet(m, toString(h[r]), r)

\* has(vector)
setHas(m, h, r) == toString(h[r]) \in Keys(m)

\* values() / toArray(): the stored references in iteration order.
setValues(m) == [i \in DOMAIN m |-> m[i].ref]

Preds == {"all", "xIsZero"}

\* The caller's filterFunction.
Holds(pred, v) ==
    CASE pred = "all" -> TRUE
      [] pred = "xIsZero" -> NumEq(v.x, Num(0))

\* The loop of filter from entry i on, adding to newSet.
RECURSIVE FilterFrom(_, _, _, _, _)
FilterFrom(m, h, pred, i, newSet) ==
    IF i > Len(m) THEN newSet
    ELSE FilterFrom(m, h, pred, i + 1,
                    IF Holds(pred, h[m[i].ref])
                    THEN setAdd(newSet, h, m[i].ref) ELSE newSet)

\* filter(filterFunction)
setFilter(m, h, pred) == FilterFrom(m, h, pred, 1, <<>>)

Refs == 1..NumVecs

SetIds == {1, 2}

MapOf(sid) == IF sid = 1 THEN map ELSE map2

VsCall(op, sid, r, pred) == [op |-> op, set |-> sid, ref |-> r, pred |-> pred]

\* set.add(vector) on the caller's set (1) or on the filtered set (2).
VSAdd(sid, r) ==
    /\ sid = 2 => hasSet2
    /\ map' = IF sid = 1 THEN setAdd(map, heap, r) ELSE map
    /\ map2' = IF sid = 2 THEN setAdd(map2, heap, r) ELSE map2
    /\ vsOp' = VsCall("add", sid, r, "")
    /\ vsRet' = <<>>
    /\ UNCHANGED <<heap, hasSet2, vsFrame>>

VSHas(sid, r) ==
    /\ sid = 2 => hasSet2
    /\ vsOp' = VsCall("has", sid, r, "")
    /\ vsRet' = <<setHas(MapOf(sid), heap, r)>>
    /\ UNCHANGED <<heap, map, map2, hasSet2, vsFrame>>

\* set.filter(p) on the caller's set; the result becomes set 2.
VSFilter(pred) ==
    /\ map2' = setFilter(map, heap, pred)
    /\ hasSet2' = TRUE
    /\ vsOp' = VsCall("filter", 1, 0, pred)
    /\ vsRet' = <<>>
    /\ UNCHANGED <<heap, map, vsFrame>>

VSClear(sid) ==
    /\ sid = 2 => hasSet2
    /\ map' = IF sid = 1 THEN <<>> ELSE map
    /\ map2' = IF sid = 2 THEN <<>> ELSE map2
    /\ vsOp' = VsCall("clear", sid, 0, "")
    /\ vsRet' = <<>>
    /\ UNCHANGED <<heap, hasSet2, vsFrame>>

VSToArray(sid) ==
    /\ sid = 2 => hasSet2
    /\ vsOp' = VsCall("toArray", sid, 0, "")
    /\ vsRet' = setValues(MapOf(sid))
    /\ UNCHANGED <<heap, map, map2, hasSet2, vsFrame>>

\* The caller calls addValue on a vector it holds.
VSAddValue(r, dx, dy) ==
    /\ heap[r].x.num + dx \in 0..MaxV
    /\ heap[r].y.num + dy \in 0..MaxSetY
    /\ <<dx, dy>> # <<0, 0>>
    /\ heap' = addValue(heap, r, dx, dy)
    /\ vsOp' = VsCall("addValue", 0, r, "")
    /\ vsRet' = <<>>
    /\ UNCHANGED <<map, map2, hasSet2, vsFrame>>

----------------------------------------------------------------------------
(* Vector2 and Vector3: the calls *)

Sgn(n) == IF n < 0 THEN -1 ELSE IF n > 0 THEN 1 ELSE 0

\* a + b for integers a and b.
Plus(a, b) == Num(a.num + b.num)

\* a * b for finite a and b.
Times(a, b) == Quot(a.num * b.num, a.den2 * b.den2)

\* a / b for an integer a and a finite b: n/0 is +-Infinity, 0/0 is NaN.
Div(a, b) ==
    IF b.num = 0
    THEN Quot(a.num, 0)
    ELSE Quot(a.num * b.den2 * Sgn(b.num), b.num * b.num * b.den2)

\* Math.sqrt(n) for an integer n >= 0.
Sqrt(n) == IF n = 0 THEN Num(0) ELSE Quot(n, n)

\* What a call leaves: the heap, the reference it returned (0 for null) and
\* the message of the error it threw ("" when it returned).
Done(h, r) == [heap |-> h, ref |-> r, threw |-> ""]
Thrown(h, msg) == [heap |-> h, ref |-> 0, threw |-> msg]

\* Math.floor(a) and Math.round(a) for a finite a.
FloorOf(a) ==
    LET B == Abs(a.num) + 1
    IN  Num(CHOOSE n \in (-B)..B :
                ~Greater(Num(n), a) /\ Greater(Num(n + 1), a))

RoundOf(a) ==
    LET B == Abs(a.num) + 1
    IN  Num(CHOOSE n \in (-B)..B :
                /\ ~Greater(Quot(2 * n - 1, 4), a)
                /\ Greater(Quot(2 * n + 1, 4), a))

\* Math.pow(10, decimals) for decimals >= 0
RECURSIVE Pow10(_)
Pow10(decimals) == IF decimals = 0 THEN 1 ELSE 10 * Pow10(decimals - 1)

\* Math.cos and Math.sin of q quarter turns.
Cos(q) == CASE q % 4 = 0 -> 1 [] q % 4 = 2 -> -1 [] OTHER -> 0
Sin(q) == CASE q % 4 = 1 -> 1 [] q % 4 = 3 -> -1 [] OTHER -> 0

\* add with the sum put into the receiver.
addInPlace(h, r, v) ==
    Done([h EXCEPT ![r] = [x |-> Plus(h[r].x, h[v].x),
                           y |-> Plus(h[r].y, h[v].y)]], r)

\* this.add(v) on integer vectors
add(h, r, v) ==
    LET h1 == New(h, Plus(h[r].x, h[v].x), Plus(h[r].y, h[v].y))
    IN  Done(h1, Newest(h1))

\* this.subtract(v) on integer vectors
subtract(h, r, v) ==
    LET h1 == New(h, Num(h[r].x.num - h[v].x.num), Num(h[r].y.num - h[v].y.num))
    IN  Done(h1, Newest(h1))

\* this.perp()
perp(h, r) ==
    LET h1 == New(h, Num(-h[r].y.num), h[r].x) IN Done(h1, Newest(h1))

\* this.clone()
clone(h, r) ==
    LET h1 == New(h, h[r].x, h[r].y) IN Done(h1, Newest(h1))

\* this.scale(scalar)
scale(h, r, scalar) ==
    LET h1 == New(h, Times(h[r].x, Num(scalar)), Times(h[r].y, Num(scalar)))
    IN  Done(h1, Newest(h1))

\* this.round(decimals)
round(h, r, decimals) ==
    LET factor == Num(Pow10(decimals))
        h1 == New(h, Div(RoundOf(Times(h[r].x, factor)), factor),
                     Div(RoundOf(Times(h[r].y, factor)), factor))
    IN  Done(h1, Newest(h1))

\* this.floor()
floor(h, r) ==
    LET h1 == New(h, FloorOf(h[r].x), FloorOf(h[r].y)) IN Done(h1, Newest(h1))

\* this.interpolate(goal, t) on integer vectors and an integer t
interpolate(h, r, goal, t) ==
    LET h1 == New(h, Num(h[r].x.num + (h[goal].x.num - h[r].x.num) * t),
                     Num(h[r].y.num + (h[goal].y.num - h[r].y.num) * t))
    IN  Done(h1, Newest(h1))

\* this.rotate(angleInRadians) by q quarter turns
rotate(h, r, q) ==
    LET cos == Cos(q)
        sin == Sin(q)
        h1 == New(h, Num(h[r].x.num * cos - h[r].y.num * sin),
                     Num(h[r].x.num * sin + h[r].y.num * cos))
    IN  Done(h1, Newest(h1))

\* this.length()
length(v) == Sqrt(v.x.num * v.x.num + v.y.num * v.y.num)

\* this.normalize()
normalize(h, r) ==
    LET len == length(h[r])
    IN  IF NumEq(len, Num(0))
        THEN LET h1 == New(h, Num(0), Num(0)) IN Done(h1, Newest(h1))
        ELSE LET h1 == New(h, Div(h[r].x, len), Div(h[r].y, len))
             IN  Done(h1, Newest(h1))

divideNoGuard(h, r, scalar) ==
    LET h1 == New(h, Div(h[r].x, Num(scalar)), Div(h[r].y, Num(scalar)))
    IN  Done(h1, Newest(h1))

\* this.divide(scalar)
divide(h, r, scalar) ==
    IF scalar = 0
    THEN Thrown(h, "Cannot divide by zero")
    ELSE LET h1 == New(h, Div(h[r].x, Num(scalar)), Div(h[r].y, Num(scalar)))
         IN  Done(h1, Newest(h1))

\* this.squaredDistanceTo(vec) on integer vectors
squaredDistanceTo(this, vec) ==
    LET dx == vec.x.num - this.x.num
        dy == vec.y.num - this.y.num
    IN  Num(dx * dx + dy * dy)

toArray(v) == <<v.x, v.y>>

toPoint(v) == [x |-> v.x, y |-> v.y]

\* The loop of getClosestVector from position i of vectors on.
RECURSIVE ClosestFromOrEqual(_, _, _, _, _, _)
ClosestFromOrEqual(h, this, vectors, i, closestPosition, closestDistance) ==
    IF i > Len(vectors)
    THEN closestPosition
    ELSE LET distance == squaredDistanceTo(h[vectors[i]], h[this])
         IN  IF ~Greater(distance, closestDistance)
             THEN ClosestFromOrEqual(h, this, vectors, i + 1,
                                     vectors[i], distance)
             ELSE ClosestFromOrEqual(h, this, vectors, i + 1,
                                     closestPosition, closestDistance)

getClosestVectorOrEqual(h, this, vectors) ==
    Done(h, ClosestFromOrEqual(h, this, vectors, 1, 0, Quot(1, 0)))

RECURSIVE ClosestFrom(_, _, _, _, _, _)
ClosestFrom(h, this, vectors, i, closestPosition, closestDistance) ==
    IF i > Len(vectors)
    THEN closestPosition
    ELSE LET distance == squaredDistanceTo(h[vectors[i]], h[this])
         IN  IF Greater(closestDistance, distance)
             THEN ClosestFrom(h, this, vectors, i + 1, vectors[i], distance)
             ELSE ClosestFrom(h, this, vectors, i + 1,
                              closestPosition, closestDistance)

\* this.getClosestVector(vectors): closestPosition is null (0) and
\* closestDistance is Infinity before the loop.
getClosestVector(h, this, vectors) ==
    Done(h, ClosestFrom(h, this, vectors, 1, 0, Quot(1, 0)))

fromPointSwapped(h, point) ==
    LET h1 == New(h, point.y, point.x) IN Done(h1, Newest(h1))

\* Vector2.fromPoint({ x, y })
fromPoint(h, point) ==
    LET h1 == New(h, point.x, point.y) IN Done(h1, Newest(h1))

\* Vector2.fromArray([x, y])
fromArray(h, array) ==
    LET h1 == New(h, array[1], array[2]) IN Done(h1, Newest(h1))

\* vectors.reduce((acc, vec) => acc.add(vec), acc) from position i on: the
\* heap with the sums made on the way and the reference of the last one.
RECURSIVE Reduce(_, _, _, _)
Reduce(h, vectors, i, acc) ==
    IF i > Len(vectors)
    THEN Done(h, acc)
    ELSE LET s == add(h, acc, vectors[i])
         IN  Reduce(s.heap, vectors, i + 1, s.ref)

centerNoGuard(h, vectors) ==
    LET h0 == New(h, Num(0), Num(0))
        sum == Reduce(h0, vectors, 1, Newest(h0))
        count == Len(vectors)
        h1 == New(sum.heap, Div(sum.heap[sum.ref].x, Num(count)),
                            Div(sum.heap[sum.ref].y, Num(count)))
    IN  Done(h1, Newest(h1))

\* Vector2.center(vectors)
center(h, vectors) ==
    IF Len(vectors) = 0
    THEN Thrown(h, "No vectors provided.")
    ELSE LET h0 == New(h, Num(0), Num(0))
             sum == Reduce(h0, vectors, 1, Newest(h0))
             count == Len(vectors)
             h1 == New(sum.heap, Div(sum.heap[sum.ref].x, Num(count)),
                                 Div(sum.heap[sum.ref].y, Num(count)))
         IN  Done(h1, Newest(h1))

\* new Vector3(x, y, z)
New3(h3, x, y, z) == Append(h3, [x |-> x, y |-> y, z |-> z])

\* Vector3.fromVector2(v, z)
fromVector2(h3, v, z) == New3(h3, v.x, v.y, Num(z))

\* Vector3: this.scale(scalar)
scale3(h3, r, scalar) ==
    LET h1 == New3(h3, Times(h3[r].x, scalar), Times(h3[r].y, scalar),
                       Times(h3[r].z, scalar))
    IN  Done(h1, Newest(h1))

normalize3NewZero(h3, r) ==
    LET len == Sqrt(h3[r].x.num * h3[r].x.num + h3[r].y.num * h3[r].y.num
                    + h3[r].z.num * h3[r].z.num)
    IN  IF Greater(len, Num(0))
        THEN scale3(h3, r, Div(Num(1), len))
        ELSE LET h1 == New3(h3, Num(0), Num(0), Num(0))
             IN  Done(h1, Newest(h1))

\* Vector3: this.normalize()
normalize3(h3, r) ==
    LET len == Sqrt(h3[r].x.num * h3[r].x.num + h3[r].y.num * h3[r].y.num
                    + h3[r].z.num * h3[r].z.num)
    IN  IF Greater(len, Num(0))
        THEN scale3(h3, r, Div(Num(1), len))
        ELSE Done(h3, r)

\* The vectors the caller holds; what earlier calls returned is dropped.
Pool(h) == SubSeq(h, 1, NumVecs)

\* The collections handed to center and getClosestVector: runs of the
\* caller's vectors.
Colls ==
    {<<>>} \cup {[i \in 1..(b - a + 1) |-> a + i - 1] :
                    a \in Refs, b \in Refs}

Scalars == (-MaxV)..MaxV

VCall(op, r, arg, coll) == [op |-> op, ref |-> r, arg |-> arg, coll |-> coll]

\* The caller has made no call yet on the vectors it holds.
NoCallYet == vOp.op = "new"

\* What a call on the caller's vectors leaves: the heap, what it returned
\* and threw, and the call itself.
V2Call(op, r, arg, coll, res) ==
    /\ heap' = res.heap
    /\ vRet' = res.ref
    /\ vThrew' = res.threw
    /\ vOp' = VCall(op, r, arg, coll)
    /\ UNCHANGED <<heap3, v2Frame>>

\* r.add(v)
V2Add(r, v) ==
    /\ NoCallYet
    /\ V2Call("add", r, 0, <<v>>, add(Pool(heap), r, v))

\* r.subtract(v)
V2Subtract(r, v) ==
    /\ NoCallYet
    /\ V2Call("subtract", r, 0, <<v>>, subtract(Pool(heap), r, v))

\* r.scale(scalar)
V2Scale(r, scalar) ==
    /\ NoCallYet
    /\ V2Call("scale", r, scalar, <<>>, scale(Pool(heap), r, scalar))

\* r.perp()
V2Perp(r) ==
    /\ NoCallYet
    /\ V2Call("perp", r, 0, <<>>, perp(Pool(heap), r))

\* r.round(decimals)
V2Round(r, decimals) ==
    /\ NoCallYet
    /\ V2Call("round", r, decimals, <<>>, round(Pool(heap), r, decimals))

\* r.floor()
V2Floor(r) ==
    /\ NoCallYet
    /\ V2Call("floor", r, 0, <<>>, floor(Pool(heap), r))

\* r.interpolate(goal, t)
V2Interpolate(r, goal, t) ==
    /\ NoCallYet
    /\ V2Call("interpolate", r, t, <<goal>>,
              interpolate(Pool(heap), r, goal, t))

\* r.rotate(q * Math.PI / 2)
V2Rotate(r, q) ==
    /\ NoCallYet
    /\ V2Call("rotate", r, q, <<>>, rotate(Pool(heap), r, q))

\* r.clone()
V2Clone(r) ==
    /\ NoCallYet
    /\ V2Call("clone", r, 0, <<>>, clone(Pool(heap), r))

\* r.toArray() and r.toPoint(): what they return is no vector.
V2ToArray(r) ==
    /\ NoCallYet
    /\ toArray(heap[r]) = <<heap[r].x, heap[r].y>>
    /\ V2Call("toArray", r, 0, <<>>, Done(Pool(heap), 0))

V2ToPoint(r) ==
    /\ NoCallYet
    /\ toPoint(heap[r]).x = heap[r].x
    /\ V2Call("toPoint", r, 0, <<>>, Done(Pool(heap), 0))

\* r.addValue(dx, dy)
V2AddValue(r, dx, dy) ==
    /\ NoCallYet
    /\ V2Call("addValue", r, 0, <<dx, dy>>,
              Done(addValue(Pool(heap), r, dx, dy), 0))

\* Vector2.fromPoint(v.toPoint())
FromPointOfToPoint(r) ==
    LET res == fromPoint(Pool(heap), toPoint(heap[r]))
    IN  /\ NoCallYet
        /\ heap' = res.heap
        /\ vRet' = res.ref
        /\ vThrew' = res.threw
        /\ vOp' = VCall("fromPoint", r, 0, <<>>)
        /\ UNCHANGED <<heap3, v2Frame>>

\* Vector2.fromArray(v.toArray())
FromArrayOfToArray(r) ==
    LET res == fromArray(Pool(heap), toArray(heap[r]))
    IN  /\ NoCallYet
        /\ heap' = res.heap
        /\ vRet' = res.ref
        /\ vThrew' = res.threw
        /\ vOp' = VCall("fromArray", r, 0, <<>>)
        /\ UNCHANGED <<heap3, v2Frame>>

\* v.normalize()
Normalize(r) ==
    LET res == normalize(Pool(heap), r)
    IN  /\ NoCallYet
        /\ heap' = res.heap
        /\ vRet' = res.ref
        /\ vThrew' = res.threw
        /\ vOp' = VCall("normalize", r, 0, <<>>)
        /\ UNCHANGED <<heap3, v2Frame>>

\* Vector3.fromVector2(v, z).normalize(): the receiver is heap3[1].
Normalize3(r, z) ==
    LET res == normalize3(fromVector2(<<>>, heap[r], z), 1)
    IN  /\ NoCallYet
        /\ heap3' = res.heap
        /\ vRet' = res.ref
        /\ vThrew' = res.threw
        /\ vOp' = VCall("normalize3", r, z, <<>>)
        /\ heap' = Pool(heap)
        /\ UNCHANGED v2Frame

\* v.divide(scalar)
Divide(r, scalar) ==
    LET res == divide(Pool(heap), r, scalar)
    IN  /\ NoCallYet
        /\ heap' = res.heap
        /\ vRet' = res.ref
        /\ vThrew' = res.threw
        /\ vOp' = VCall("divide", r, scalar, <<>>)
        /\ UNCHANGED <<heap3, v2Frame>>

\* Vector2.center(vectors)
Center(vectors) ==
    LET res == center(Pool(heap), vectors)
    IN  /\ NoCallYet
        /\ heap' = res.heap
        /\ vRet' = res.ref
        /\ vThrew' = res.threw
        /\ vOp' = VCall("center", 0, 0, vectors)
        /\ UNCHANGED <<heap3, v2Frame>>

\* q.getClosestVector(vectors)
GetClosestVector(q, vectors) ==
    LET res == getClosestVector(Pool(heap), q, vectors)
    IN  /\ NoCallYet
        /\ heap' = res.heap
        /\ vRet' = res.ref
        /\ vThrew' = res.threw
        /\ vOp' = VCall("getClosestVector", q, 0, vectors)
        /\ UNCHANGED <<heap3, v2Frame>>

----------------------------------------------------------------------------
(* median and medianPoint *)

\* values.sort((a, b) => a - b): a goes before the first number it is
\* below.
RECURSIVE Insert(_, _)
Insert(sorted, a) ==
    IF sorted = <<>>
    THEN <<a>>
    ELSE IF a - Head(sorted) < 0
         THEN <<a>> \o sorted
         ELSE <<Head(sorted)>> \o Insert(Tail(sorted), a)

RECURSIVE sort(_)
sort(vals) ==
    IF vals = <<>>
    THEN <<>>
    ELSE Insert(sort(SubSeq(vals, 1, Len(vals) - 1)), vals[Len(vals)])

medianNoSort(vals) ==
    IF Len(vals) = 0
    THEN [values |-> vals, ret |-> Num(0)]
    ELSE LET mid == Len(vals) \div 2
         IN  IF Len(vals) % 2 # 0
             THEN [values |-> vals, ret |-> Num(vals[mid + 1])]
             ELSE [values |-> vals,
                   ret |-> Div(Num(vals[mid] + vals[mid + 1]), Num(2))]

\* median(values): the array as the call leaves it (sorted in place) and
\* the number returned.  values[mid] of the source is sorted[mid + 1] here.
median(vals) ==
    IF Len(vals) = 0
    THEN [values |-> vals, ret |-> Num(0)]
    ELSE LET sorted == sort(vals)
             mid == Len(sorted) \div 2
         IN  IF Len(sorted) % 2 # 0
             THEN [values |-> sorted, ret |-> Num(sorted[mid + 1])]
             ELSE [values |-> sorted,
                   ret |-> Div(Num(sorted[mid] + sorted[mid + 1]), Num(2))]

\* medianPoint(points): xValues and yValues are new arrays.
medianPoint(pts) ==
    LET xValues == [i \in DOMAIN pts |-> pts[i].x]
        yValues == [i \in DOMAIN pts |-> pts[i].y]
    IN  [x |-> median(xValues).ret, y |-> median(yValues).ret]

Numbers == (-1)..MaxVal

MCall(op, arg) == [op |-> op, arg |-> arg]

\* median(values)
Median ==
    /\ mOp.op = "new"
    /\ values' = median(values).values
    /\ mRet' = median(values).ret
    /\ mOp' = MCall("median", values)
    /\ UNCHANGED <<points, radians, utFrame>>

\* medianPoint(points)
MedianPoint ==
    /\ mOp.op = "new"
    /\ mRet' = medianPoint(points)
    /\ mOp' = MCall("medianPoint", points)
    /\ UNCHANGED <<values, points, radians, utFrame>>

\* a % b of the source for b > 0: the remainder has the sign of a.
Rem(a, b) == IF a < 0 THEN -((-a) % b) ELSE a % b

\* Math.round of d / AngDen for d >= 0: halves go up.
Round(d) == (2 * d + AngDen) \div (2 * AngDen)

\* radiansToDegreesNormalized(radians): degrees is kept in 1/AngDen degree.
radiansToDegreesNormalized(rad) ==
    LET degrees == rad
        wrapped == Rem(degrees, 360 * AngDen)
        adjusted == IF wrapped < 0 THEN wrapped + 360 * AngDen ELSE wrapped
    IN  Round(adjusted)

Angles ==
    {360 * AngDen * t + a : t \in (-MaxTurns)..MaxTurns, a \in (-MaxAng)..MaxAng}

\* radiansToDegreesNormalized(radians)
RadiansToDegreesNormalized ==
    /\ mOp.op = "new"
    /\ mRet' = Num(radiansToDegreesNormalized(radians))
    /\ mOp' = MCall("radiansToDegreesNormalized", radians)
    /\ UNCHANGED <<values, points, radians, utFrame>>

----------------------------------------------------------------------------
(* EventEmitter *)

Events == {"e1", "e2"}

Listeners == {"l1", "l2"}

Args == {"x", "y"}

\* this.listeners.has(event) and this.listeners.get(event)
NoArray == [has |-> FALSE, list |-> <<>>]
Array(list) == [has |-> TRUE, list |-> list]

\* eventListeners.filter((l) => l !== listener)
Without(list, listener) == SelectSeq(list, LAMBDA l : l # listener)

\* The list with the first occurrence of listener taken out.
RECURSIVE WithoutFirst(_, _)
WithoutFirst(list, listener) ==
    IF list = <<>> THEN <<>>
    ELSE IF Head(list) = listener THEN Tail(list)
    ELSE <<Head(list)>> \o WithoutFirst(Tail(list), listener)

\* on(event, listener): the map after the call.
on(ls, event, listener) ==
    [ls EXCEPT ![event] = Array(Append(@.list, listener))]

offFirstOnly(ls, event, listener) ==
    IF ~ls[event].has
    THEN ls
    ELSE [ls EXCEPT ![event] = Array(WithoutFirst(@.list, listener))]

\* off(event, listener): the map after the call.
off(ls, event, listener) ==
    IF ~ls[event].has
    THEN ls
    ELSE [ls EXCEPT ![event] = Array(Without(@.list, listener))]

\* No emit is running.
NoEmit ==
    [active |-> FALSE, event |-> "e1", arg |-> "x", array |-> <<>>,
     inMap |-> FALSE, len |-> 0, k |-> 0]

\* forEach going on while the array has elements beyond position k,
\* whenever they were pushed.
MoreToVisitLive(em) == em.k < Len(em.array)

\* forEach visits the positions below the length the array had when forEach
\* was called.
MoreToVisit(em) == em.k < em.len

\* What a listener does when it is invoked: nothing, or a call of on or off.
Bodies ==
    {[do |-> "nothing", event |-> "e1", listener |-> "l1"]}
    \cup [do : {"on", "off"}, event : Events, listener : Listeners]

ECall(op, event, listener, arg) ==
    [op |-> op, event |-> event, listener |-> listener, arg |-> arg]

\* emitter.on(event, listener) from outside an emit
On(event, listener) ==
    /\ ~emitting.active
    /\ Len(listeners[event].list) < MaxReg
    /\ listeners' = on(listeners, event, listener)
    /\ registered' = [registered EXCEPT ![event] = Append(@, listener)]
    /\ eeOp' = ECall("on", event, listener, "x")
    /\ UNCHANGED <<emitting, calls, atEmit, reentered, eeFrame>>

\* emitter.off(event, listener) from outside an emit
Off(event, listener) ==
    /\ ~emitting.active
    /\ listeners' = off(listeners, event, listener)
    /\ registered' = [registered EXCEPT ![event] = Without(@, listener)]
    /\ eeOp' = ECall("off", event, listener, "x")
    /\ UNCHANGED <<emitting, calls, atEmit, reentered, eeFrame>>

\* emitter.emit(event, arg) is called: it returns at once when the map has
\* no array for the event, else forEach starts on that array.
Emit(event, arg) ==
    /\ ~emitting.active
    /\ emitting' = IF ~listeners[event].has
                   THEN NoEmit
                   ELSE [active |-> TRUE, event |-> event, arg |-> arg,
                         array |-> listeners[event].list, inMap |-> TRUE,
                         len |-> Len(listeners[event].list), k |-> 0]
    /\ calls' = <<>>
    /\ atEmit' = registered[event]
    /\ reentered' = FALSE
    /\ eeOp' = ECall("emit", event, "l1", arg)
    /\ UNCHANGED <<listeners, registered, eeFrame>>

\* forEach invokes the next listener with arg; the listener does body.  A
\* push made by on goes to the array forEach is on when that array is still
\* the one in the map; off puts a new array in the map.
Invoke(body) ==
    /\ emitting.active
    /\ MoreToVisit(emitting)
    /\ body.do = "on" => Len(listeners[body.event].list) < MaxReg
    /\ calls' = Append(calls, [listener |-> emitting.array[emitting.k + 1],
                               arg |-> emitting.arg])
    /\ listeners' =
          CASE body.do = "on" -> on(listeners, body.event, body.listener)
            [] body.do = "off" -> off(listeners, body.event, body.listener)
            [] OTHER -> listeners
    /\ registered' =
          CASE body.do = "on" ->
                   [registered EXCEPT ![body.event] = Append(@, body.listener)]
            [] body.do = "off" ->
                   [registered EXCEPT ![body.event] = Without(@, body.listener)]
            [] OTHER -> registered
    /\ emitting' =
          [emitting EXCEPT
              !.k = @ + 1,
              !.array = IF body.do = "on" /\ body.event = emitting.event
                           /\ emitting.inMap
                        THEN Append(@, body.listener) ELSE @,
              !.inMap = IF body.do = "off" /\ body.event = emitting.event
                        THEN FALSE ELSE @]
    /\ reentered' = (reentered \/ body.do # "nothing")
    /\ UNCHANGED <<atEmit, eeOp, eeFrame>>

\* forEach has visited every position: emit returns.
EmitReturn ==
    /\ emitting.active
    /\ ~MoreToVisit(emitting)
    /\ emitting' = [NoEmit EXCEPT !.event = emitting.event,
                                  !.arg = emitting.arg]
    /\ eeOp' = ECall("emitted", emitting.event, "l1", emitting.arg)
    /\ UNCHANGED <<listeners, calls, registered, atEmit, reentered, eeFrame>>

----------------------------------------------------------------------------
(* FormationManager *)

Ids == {"f1", "f2"}

DamageTypes == {"d1", "d2"}

\* formation.friendlyFireImmuneDamageTypes: undefined, or a list.
Unlisted == [defined |-> FALSE, list |-> <<>>]
Listed(list) == [defined |-> TRUE, list |-> list]

ImmuneLists == {Unlisted, Listed(<<>>), Listed(<<"d1">>), Listed(<<"d2">>),
                Listed(<<"d1", "d2">>)}

\* The templates: name tells two templates of one id apart.
Templates ==
    [id : Ids, name : {"a", "b"}, friendlyFireImmuneDamageTypes : ImmuneLists]

\* What Map.get gives: the value, or undefined.
Missing ==
    [has |-> FALSE,
     value |-> [id |-> "", name |-> "", friendlyFireImmuneDamageTypes |-> Unlisted]]
Found(t) == [has |-> TRUE, value |-> t]

NoSet == [has |-> FALSE, set |-> {}]

\* new Set(list)
SetOf(list) == [has |-> TRUE, set |-> {list[i] : i \in DOMAIN list}]

\* The loop of load from position i of templates on.
RECURSIVE LoadFrom(_, _, _, _)
LoadFrom(fmap, immune, templates, i) ==
    IF i > Len(templates)
    THEN [formationMap |-> fmap, immuneTypes |-> immune]
    ELSE LET formation == templates[i]
             fmap1 == [fmap EXCEPT ![formation.id] = Found(formation)]
             immune1 ==
                 IF formation.friendlyFireImmuneDamageTypes.defined
                    /\ Len(formation.friendlyFireImmuneDamageTypes.list) > 0
                 THEN [immune EXCEPT ![formation.id] =
                          SetOf(formation.friendlyFireImmuneDamageTypes.list)]
                 ELSE immune
         IN  LoadFrom(fmap1, immune1, templates, i + 1)

\* load(_templates)
load(fmap, immune, templates) == LoadFrom(fmap, immune, templates, 1)

\* getTemplate(id): the template, or null (has = FALSE).
getTemplate(fmap, id) == fmap[id]

\* isFriendlyFireImmune(id, damageType)
isFriendlyFireImmune(immune, id, damageType) ==
    IF immune[id].has THEN damageType \in immune[id].set ELSE FALSE

FCall(op, id, damageType) == [op |-> op, id |-> id, damageType |-> damageType]

NoAnswer == [template |-> Missing, immune |-> FALSE]

\* The template of id handed over last in templates, else what was there.
RECURSIVE LatestIn(_, _, _)
LatestIn(templates, id, before) ==
    IF templates = <<>>
    THEN before
    ELSE IF templates[Len(templates)].id = id
    THEN Found(templates[Len(templates)])
    ELSE LatestIn(SubSeq(templates, 1, Len(templates) - 1), id, before)

\* manager.load(templates)
Load(templates) ==
    LET res == load(formationMap, immuneTypes, templates)
    IN  /\ formationMap' = res.formationMap
        /\ immuneTypes' = res.immuneTypes
        /\ latest' = [id \in Ids |-> LatestIn(templates, id, latest[id])]
        /\ fmOp' = FCall("load", "", "")
        /\ fmRet' = NoAnswer
        /\ UNCHANGED fmFrame

\* manager.getTemplate(id)
GetTemplate(id) ==
    /\ fmRet' = [template |-> getTemplate(formationMap, id), immune |-> FALSE]
    /\ fmOp' = FCall("getTemplate", id, "")
    /\ UNCHANGED <<formationMap, immuneTypes, latest, fmFrame>>

\* manager.isFriendlyFireImmune(id, damageType)
IsFriendlyFireImmune(id, damageType) ==
    /\ fmRet' = [template |-> Missing,
                 immune |-> isFriendlyFireImmune(immuneTypes, id, damageType)]
    /\ fmOp' = FCall("isFriendlyFireImmune", id, damageType)
    /\ UNCHANGED <<formationMap, immuneTypes, latest, fmFrame>>

----------------------------------------------------------------------------
(* Specifications *)

\* No path has been handed to douglasPeucker.
IdleDP ==
    /\ path = <<>>
    /\ epsilon = 0
    /\ out = <<>>
    /\ path2 = <<>>
    /\ epsilon2 = 0
    /\ out2 = <<>>
    /\ dpPc = "input"

\* A queue as constructed, with the default comparator.
IdlePQ ==
    /\ items = <<>>
    /\ compare = "asc"
    /\ ret = Undefined
    /\ threw = FALSE
    /\ lastOp = "new"
    /\ drained = <<>>
    /\ held = NoneHeld

\* No Vector2 has been made and the caller's set is empty.
IdleVS ==
    /\ heap = <<>>
    /\ map = <<>>
    /\ map2 = <<>>
    /\ hasSet2 = FALSE
    /\ vsOp = VsCall("new", 0, 0, "")
    /\ vsRet = <<>>

\* No call has been made on a vector.
IdleV2 ==
    /\ heap3 = <<>>
    /\ vOp = VCall("new", 0, 0, <<>>)
    /\ vRet = 0
    /\ vThrew = ""

\* No array has been handed to median or medianPoint.
IdleUt ==
    /\ values = <<>>
    /\ points = <<>>
    /\ radians = 0
    /\ mOp = MCall("new", <<>>)
    /\ mRet = Num(0)

\* new FormationManager()
IdleFM ==
    /\ formationMap = [id \in Ids |-> Missing]
    /\ immuneTypes = [id \in Ids |-> NoSet]
    /\ latest = [id \in Ids |-> Missing]
    /\ fmOp = FCall("new", "", "")
    /\ fmRet = NoAnswer

\* new EventEmitter()
IdleEE ==
    /\ listeners = [e \in Events |-> NoArray]
    /\ emitting = NoEmit
    /\ calls = <<>>
    /\ registered = [e \in Events |-> <<>>]
    /\ atEmit = <<>>
    /\ reentered = FALSE
    /\ eeOp = ECall("new", "e1", "l1", "x")

\* new PriorityQueue() or new PriorityQueue(compare)
InitPQ ==
    /\ items = <<>>
    /\ compare \in Comparators
    /\ ret = Undefined
    /\ threw = FALSE
    /\ lastOp = "new"
    /\ drained = <<>>
    /\ held = NoneHeld
    /\ IdleDP
    /\ IdleVS
    /\ IdleV2
    /\ IdleUt
    /\ IdleEE
    /\ IdleFM

NextPQ ==
    \/ \E item \in Items, priority \in Priorities : Enqueue(item, priority)
    \/ Dequeue
    \/ Peek
    \/ Clear

SpecPQ == InitPQ /\ [][NextPQ]_vars

\* The caller holds a path of at most MaxLen points.
InitDP ==
    /\ \E n \in 0..MaxLen : \E c \in [1..n -> Coords] : path = PathOf(c)
    /\ epsilon = 0
    /\ out = <<>>
    /\ path2 = <<>>
    /\ epsilon2 = 0
    /\ out2 = <<>>
    /\ dpPc = "input"
    /\ IdlePQ
    /\ IdleVS
    /\ IdleV2
    /\ IdleUt
    /\ IdleEE
    /\ IdleFM

NextDP ==
    \/ \E eps \in Tolerances : Simplify(eps)
    \/ SimplifyAgain
    \/ \E eps \in Tolerances : SimplifyLooser(eps)

SpecDP == InitDP /\ [][NextDP]_vars

\* The caller makes one call.
NextDPOne ==
    \E eps \in Tolerances : Simplify(eps)

SpecDPOne == InitDP /\ [][NextDPOne]_vars

\* The caller holds NumVecs vectors and a new Vector2Set.
InitVS ==
    /\ \E c \in [Refs -> (0..MaxV) \X (0..MaxSetY)] :
          heap = [r \in Refs |-> [x |-> Num(c[r][1]), y |-> Num(c[r][2])]]
    /\ map = <<>>
    /\ map2 = <<>>
    /\ hasSet2 = FALSE
    /\ vsOp = VsCall("new", 0, 0, "")
    /\ vsRet = <<>>
    /\ IdlePQ
    /\ IdleDP
    /\ IdleV2
    /\ IdleUt
    /\ IdleEE
    /\ IdleFM

NextVS ==
    \/ \E sid \in SetIds, r \in Refs : VSAdd(sid, r)
    \/ \E sid \in SetIds, r \in Refs : VSHas(sid, r)
    \/ \E pred \in Preds : VSFilter(pred)
    \/ \E sid \in SetIds : VSClear(sid)
    \/ \E sid \in SetIds : VSToArray(sid)
    \/ \E r \in Refs, dx \in -1..1, dy \in -1..1 : VSAddValue(r, dx, dy)

SpecVS == InitVS /\ [][NextVS]_vars

\* The caller holds NumVecs vectors with integer coordinates.
InitV2 ==
    /\ \E c \in [Refs -> (0..MaxV) \X (0..MaxV)] :
          heap = [r \in Refs |-> [x |-> Num(c[r][1]), y |-> Num(c[r][2])]]
    /\ map = <<>>
    /\ map2 = <<>>
    /\ hasSet2 = FALSE
    /\ vsOp = VsCall("new", 0, 0, "")
    /\ vsRet = <<>>
    /\ IdleV2
    /\ IdlePQ
    /\ IdleDP
    /\ IdleUt
    /\ IdleEE
    /\ IdleFM

NextV2 ==
    \/ \E r \in Refs : FromPointOfToPoint(r)
    \/ \E r \in Refs : FromArrayOfToArray(r)
    \/ \E r \in Refs : Normalize(r)
    \/ \E r \in Refs, z \in 0..MaxV : Normalize3(r, z)
    \/ \E r \in Refs, scalar \in Scalars : Divide(r, scalar)
    \/ \E vectors \in Colls : Center(vectors)
    \/ \E q \in Refs, vectors \in Colls : GetClosestVector(q, vectors)
    \/ \E r \in Refs, v \in Refs : V2Add(r, v)
    \/ \E r \in Refs, v \in Refs : V2Subtract(r, v)
    \/ \E r \in Refs, scalar \in Scalars : V2Scale(r, scalar)
    \/ \E r \in Refs : V2Perp(r)
    \/ \E r \in Refs, decimals \in 0..1 : V2Round(r, decimals)
    \/ \E r \in Refs : V2Floor(r)
    \/ \E r \in Refs, goal \in Refs, t \in 0..MaxV : V2Interpolate(r, goal, t)
    \/ \E r \in Refs, q \in 0..3 : V2Rotate(r, q)
    \/ \E r \in Refs : V2Clone(r)
    \/ \E r \in Refs : V2ToArray(r)
    \/ \E r \in Refs : V2ToPoint(r)
    \/ \E r \in Refs, dx \in Scalars, dy \in Scalars : V2AddValue(r, dx, dy)

SpecV2 == InitV2 /\ [][NextV2]_vars

\* The caller holds an array of at most MaxVals numbers, or an array of at
\* most MaxPts points, or an angle.
InitUt ==
    /\ \/ /\ \E n \in 0..MaxVals : \E c \in [1..n -> Numbers] : values = c
          /\ points = <<>>
          /\ radians = 0
       \/ /\ \E n \in 1..MaxPts :
                \E c \in [1..n -> (0..MaxVal) \X (0..MaxVal)] :
                    points = [i \in 1..n |-> [x |-> c[i][1], y |-> c[i][2]]]
          /\ values = <<>>
          /\ radians = 0
       \/ /\ radians \in Angles
          /\ values = <<>>
          /\ points = <<>>
    /\ mOp = MCall("new", <<>>)
    /\ mRet = Num(0)
    /\ IdlePQ
    /\ IdleDP
    /\ IdleVS
    /\ IdleV2
    /\ IdleEE
    /\ IdleFM

NextUt ==
    \/ Median
    \/ MedianPoint
    \/ RadiansToDegreesNormalized

SpecUt == InitUt /\ [][NextUt]_vars

\* new EventEmitter()
InitEE ==
    /\ listeners = [e \in Events |-> NoArray]
    /\ emitting = NoEmit
    /\ calls = <<>>
    /\ registered = [e \in Events |-> <<>>]
    /\ atEmit = <<>>
    /\ reentered = FALSE
    /\ eeOp = ECall("new", "e1", "l1", "x")
    /\ IdlePQ
    /\ IdleDP
    /\ IdleVS
    /\ IdleV2
    /\ IdleUt
    /\ IdleFM

NextEE ==
    \/ \E event \in Events, listener \in Listeners : On(event, listener)
    \/ \E event \in Events, listener \in Listeners : Off(event, listener)
    \/ \E event \in Events, arg \in Args : Emit(event, arg)
    \/ \E body \in Bodies : Invoke(body)
    \/ EmitReturn

SpecEE == InitEE /\ [][NextEE]_vars

\* new FormationManager()
InitFM ==
    /\ formationMap = [id \in Ids |-> Missing]
    /\ immuneTypes = [id \in Ids |-> NoSet]
    /\ latest = [id \in Ids |-> Missing]
    /\ fmOp = FCall("new", "", "")
    /\ fmRet = NoAnswer
    /\ IdlePQ
    /\ IdleDP
    /\ IdleVS
    /\ IdleV2
    /\ IdleUt
    /\ IdleEE

NextFM ==
    \/ \E n \in 0..MaxLoad : \E templates \in [1..n -> Templates] :
          Load(templates)
    \/ \E id \in Ids : GetTemplate(id)
    \/ \E id \in Ids, damageType \in DamageTypes :
          IsFriendlyFireImmune(id, damageType)

SpecFM == InitFM /\ [][NextFM]_vars

----------------------------------------------------------------------------
(* PriorityQueue: properties *)

\* C1: heap invariant.  In every state reached from the empty queue by
\* enqueue, dequeue, peek and clear, every entry at an index i > 0 compares
\* >= 0 with the entry at its parent index (i - 1) div 2, under the
\* ascending and under the descending comparator.
C1_HeapInvariant ==
    \A i \in 1..(Len(items) - 1) :
        Compare(At(items, i).priority, At(items, (i - 1) \div 2).priority) >= 0

\* A dequeue has just sifted down in a heap that still has two levels
\* below the root and holds different priorities.
C1_Witness ==
    /\ lastOp = "dequeue"
    /\ Len(items) >= 4
    /\ compare = "desc"
    /\ At(items, 0).priority > At(items, 3).priority
    /\ At(items, 2).priority > At(items, 1).priority

\* C2: drain order.  The priorities of the entries removed by the dequeues
\* that follow the last enqueue are non-decreasing under the comparator, in
\* the order returned; in particular when the queue has been drained empty.
C2_DrainOrder ==
    \A k \in 1..(Len(drained) - 1) :
        Compare(drained[k + 1].priority, drained[k].priority) >= 0

\* The queue was drained empty and gave B, A, A, B for the priorities
\* 1, 2, 3, 3.
C2_Witness ==
    /\ compare = "asc"
    /\ items = <<>>
    /\ lastOp = "dequeue"
    /\ drained = << [item |-> "B", priority |-> 1],
                    [item |-> "A", priority |-> 2],
                    [item |-> "A", priority |-> 3],
                    [item |-> "B", priority |-> 3] >>

\* C3: peek.  On a non-empty queue peek returns an item held with a
\* priority that is minimal under the comparator, leaves the items array
\* as it was, and a dequeue made right after it returns the same item.
C3_PeekRootPure ==
    [][ /\ (lastOp' = "peek" /\ Len(items) > 0) =>
            /\ items' = items
            /\ threw' = FALSE
            /\ \E i \in 1..Len(items) :
                  /\ items[i].item = ret'
                  /\ \A j \in 1..Len(items) :
                        Compare(items[i].priority, items[j].priority) <= 0
        /\ (lastOp = "peek" /\ lastOp' = "dequeue" /\ Len(items) > 0) =>
            ret' = ret
      ]_vars

\* peek has answered on a queue of at least three entries whose root is
\* strictly before another entry.
C3_Witness ==
    /\ lastOp = "peek"
    /\ Len(items) >= 3
    /\ ret = At(items, 0).item
    /\ \E j \in 1..Len(items) :
          Compare(At(items, 0).priority, items[j].priority) < 0

\* C4: empty queue.  dequeue and peek on a queue that holds nothing return
\* undefined, raise nothing and leave the queue empty (size 0, isEmpty);
\* an enqueue made right after is held.
C4_EmptyContract ==
    [][ /\ (Len(items) = 0 /\ lastOp' \in {"dequeue", "peek"}) =>
            /\ ret' = Undefined
            /\ threw' = FALSE
            /\ items' = <<>>
            /\ size(items') = 0
            /\ isEmpty(items')
        /\ (Len(items) = 0 /\ lastOp \in {"dequeue", "peek"}
                /\ lastOp' = "enqueue") =>
            /\ size(items') = 1
            /\ threw' = FALSE
      ]_vars

\* A dequeue has answered undefined on a queue that earlier dequeues had
\* drained.
C4_Witness ==
    /\ lastOp = "dequeue"
    /\ ret = Undefined
    /\ items = <<>>
    /\ Len(drained) >= 2

----------------------------------------------------------------------------
(* douglasPeucker: properties *)

Last(s) == s[Len(s)]

Range(s) == {s[k] : k \in DOMAIN s}

\* o holds elements of p, unchanged, in p's order; p's ids increase.
Verbatim(o, p) ==
    /\ \A k \in DOMAIN o : \E j \in DOMAIN p : o[k] = p[j]
    /\ \A k \in 1..(Len(o) - 1) : o[k].id < o[k + 1].id

\* C5: endpoints.  For a non-empty path and any tolerance >= 0 the first
\* element of the result is the first element of the input and the last
\* element of the result is the last element of the input.
C5_Endpoints ==
    /\ (dpPc # "input" /\ Len(path) > 0) =>
          (Len(out) > 0 /\ out[1] = path[1] /\ Last(out) = Last(path))
    /\ (dpPc = "twice" /\ Len(path2) > 0) =>
          (Len(out2) > 0 /\ out2[1] = path2[1] /\ Last(out2) = Last(path2))

\* A path of four points was simplified and lost one interior point.
C5_Witness ==
    /\ dpPc = "once"
    /\ Len(path) = 4
    /\ Len(out) = 3
    /\ out[1] = path[1]
    /\ Last(out) = path[4]

\* C6: the result is a subsequence of the input.  Its elements are elements
\* of the input with every field as it was (id included), at strictly
\* increasing input indices; so it is never longer than the input.
C6_Subsequence ==
    /\ dpPc # "input" =>
          /\ \A k \in DOMAIN out :
                /\ out[k].id \in 0..(Len(path) - 1)
                /\ out[k] = path[out[k].id + 1]
          /\ \A k \in 1..(Len(out) - 1) : out[k].id < out[k + 1].id
          /\ Len(out) <= Len(path)
    /\ dpPc = "twice" =>
          /\ Verbatim(out2, path2)
          /\ Len(out2) <= Len(path2)

\* A split kept an interior point with its id and dropped another.
C6_Witness ==
    /\ dpPc = "once"
    /\ Len(path) = 4
    /\ Len(out) = 3
    /\ out[2] = path[3]
    /\ out[2].id = 2

\* C7: idempotence.  Simplifying the result again with the same tolerance
\* gives the result back, element for element.
C7_Idempotent ==
    (dpPc = "twice" /\ path2 = out /\ epsilon2 = epsilon) => out2 = out

\* The first pass dropped a point and kept an interior one, and a second
\* pass was made on its result.
C7_Witness ==
    /\ dpPc = "twice"
    /\ path2 = out
    /\ epsilon2 = epsilon
    /\ Len(path) = 4
    /\ Len(out) = 3
    /\ out2 = out

\* C8: monotone in the tolerance.  For the same path and tolerances
\* t1 <= t2 the result for t1 is at least as long as the result for t2 and
\* holds every point the result for t2 holds.
C8_Monotone ==
    (dpPc = "twice" /\ path2 = path /\ epsilon <= epsilon2) =>
        /\ Len(out) >= Len(out2)
        /\ Range(out2) \subseteq Range(out)

\* The larger tolerance dropped a point the smaller one kept, and still
\* kept an interior point.
C8_Witness ==
    /\ dpPc = "twice"
    /\ path2 = path
    /\ epsilon < epsilon2
    /\ Len(out2) = 3
    /\ Len(out) = 4

KeptIds == {out[k].id : k \in DOMAIN out}

\* C9: bounded deviation.  Every input point dropped from the result lies
\* between two kept points, and its perpendicular distance to the line
\* through the nearest kept point before it and the nearest kept point
\* after it is at most the tolerance, whenever these two kept points
\* differ in their coordinates.
C9_BoundedDeviation ==
    dpPc # "input" =>
        \A i \in 0..(Len(path) - 1) :
            i \notin KeptIds =>
                /\ \E b \in KeptIds : b < i
                /\ \E a \in KeptIds : a > i
                /\ LET before == CHOOSE b \in KeptIds :
                            b < i /\ \A k \in KeptIds : k < i => k <= b
                       after == CHOOSE a \in KeptIds :
                            a > i /\ \A k \in KeptIds : k > i => k >= a
                       pb == path[before + 1]
                       pa == path[after + 1]
                   IN  (pb.x # pa.x \/ pb.y # pa.y) =>
                          ~Greater(perpendicularDistance(path[i + 1], pb, pa),
                                   Tolerance(epsilon))

\* A point off the line through its kept neighbours was dropped under a
\* positive tolerance, next to an interior point that was kept.
C9_Witness ==
    /\ dpPc = "once"
    /\ epsilon > 0
    /\ Len(path) = 4
    /\ KeptIds = {0, 1, 3}
    /\ perpendicularDistance(path[3], path[2], path[4]).num > 0

\* C10: short input.  A path of 0, 1 or 2 elements is returned unchanged,
\* whatever the tolerance.
C10_ShortUnchanged ==
    /\ (dpPc # "input" /\ Len(path) < 3) => out = path
    /\ (dpPc = "twice" /\ Len(path2) < 3) => out2 = path2

\* A path of one point was simplified.
C10_Witness ==
    /\ dpPc = "once"
    /\ Len(path) = 1
    /\ epsilon = 1
    /\ out = path

\* C11: collapse rule.  For a path of at least 3 points whose first and
\* last points differ in their coordinates, if every interior point's
\* perpendicular distance to the line through first and last is at most the
\* tolerance (equality included), the result is exactly [first, last].
C11_Collapse ==
    (/\ dpPc # "input"
     /\ Len(path) >= 3
     /\ (path[1].x # Last(path).x \/ path[1].y # Last(path).y)
     /\ \A i \in 2..(Len(path) - 1) :
           ~Greater(perpendicularDistance(path[i], path[1], Last(path)),
                    Tolerance(epsilon)))
        => out = <<path[1], Last(path)>>

\* A path collapsed although an interior point lies off the line, at a
\* distance equal to the tolerance.
C11_Witness ==
    /\ dpPc = "once"
    /\ Len(path) = 4
    /\ epsilon > 0
    /\ out = <<path[1], path[4]>>
    /\ \E i \in 2..3 :
          LET d == perpendicularDistance(path[i], path[1], path[4])
          IN  /\ d.num > 0
              /\ ~Greater(d, Tolerance(epsilon))
              /\ ~Greater(Tolerance(epsilon), d)

----------------------------------------------------------------------------
(* Vector2Set: properties *)

\* The positions of m whose stored vector has the coordinates of v.
SameCoords(m, h, v) == {i \in DOMAIN m : equal(h[m[i].ref], v)}

\* C12: uniqueness.  In every state reached by add, clear and filter,
\* interleaved with addValue on vectors the caller holds (stored ones
\* included), no two vectors that values() returns have the same (x, y),
\* and has(v) is true for every vector v that values() returns.
C12_Unique ==
    \A sid \in SetIds :
        LET vals == setValues(MapOf(sid)) IN
        /\ \A i, j \in DOMAIN vals :
              i # j => ~equal(heap[vals[i]], heap[vals[j]])
        /\ \A i \in DOMAIN vals : setHas(MapOf(sid), heap, vals[i])

\* C13: add.  add(v) with no stored vector at v's coordinates makes the set
\* one larger; add(v) with a stored vector w at v's coordinates leaves the
\* count as it was and makes v the stored instance for these coordinates;
\* in both cases has(u) is then true for every vector u with v's
\* coordinates.
C13_Add ==
    [][ vsOp'.op = "add" =>
          LET sid == vsOp'.set
              v == heap[vsOp'.ref]
              before == IF sid = 1 THEN map ELSE map2
              after == IF sid = 1 THEN map' ELSE map2'
          IN  /\ SameCoords(before, heap, v) = {} =>
                    Len(after) = Len(before) + 1
              /\ SameCoords(before, heap, v) # {} =>
                    /\ Len(after) = Len(before)
                    /\ \A i \in SameCoords(after, heap, v) :
                          after[i].ref = vsOp'.ref
              /\ \A u \in Refs :
                    equal(heap[u], v) => setHas(after, heap, u)
      ]_vars

\* The stored vectors of m that satisfy pred, each instance once, in m's
\* iteration order.
Passing(m, h, pred) ==
    LET vals == setValues(m)
        keep == {i \in DOMAIN vals :
                    /\ Holds(pred, h[vals[i]])
                    /\ \A j \in 1..(i - 1) : vals[j] # vals[i]}
        kept == SelectSeq([i \in DOMAIN vals |-> i], LAMBDA i : i \in keep)
    IN  [k \in DOMAIN kept |-> vals[kept[k]]]

\* C14: filter does not mutate.  filter(p) returns a new set whose members
\* are exactly the receiver's stored vectors v with p(v), in the receiver's
\* iteration order, and leaves the receiver as it was; a later add or clear
\* on one of the two sets leaves the other as it was.
C14_Filter ==
    [][ /\ vsOp'.op = "filter" =>
            /\ setValues(map2') = Passing(map, heap, vsOp'.pred)
            /\ map' = map
        /\ (vsOp'.op \in {"add", "clear"} /\ vsOp'.set = 1) => map2' = map2
        /\ (vsOp'.op \in {"add", "clear"} /\ vsOp'.set = 2) => map' = map
      ]_vars


----------------------------------------------------------------------------
(* Vector2 and Vector3: properties *)

\* C15: Vector2.fromPoint(v.toPoint()) and Vector2.fromArray(v.toArray())
\* return without error a vector whose x and y are v's (Vector2.equal holds
\* of it and v), and it is a new instance, none of the caller's vectors.
C15_RoundTrip ==
    [][ vOp'.op \in {"fromPoint", "fromArray"} =>
            LET v == heap[vOp'.ref]
                w == heap'[vRet']
            IN  /\ vThrew' = ""
                /\ vRet' \notin Refs
                /\ vRet' \in DOMAIN heap'
                /\ equal(w, v)
                /\ w.x = v.x
                /\ w.y = v.y ]_vars

\* (1,0) has come back from toPoint and fromPoint as a new vector (1,0).
C15_Witness ==
    /\ vOp.op = "fromPoint"
    /\ heap[vOp.ref] = [x |-> Num(1), y |-> Num(0)]
    /\ vRet > NumVecs
    /\ heap[vRet] = [x |-> Num(1), y |-> Num(0)]

\* C16: normalize never throws.  On Vector2 (0,0) it returns a new vector
\* (0,0), not the receiver; on Vector3 (0,0,0) it returns the receiver
\* itself.  On a non-zero vector both return a new instance, and the
\* receiver keeps its components.
C16_NormalizeZero ==
    [][ /\ vOp'.op = "normalize" =>
              LET v == heap[vOp'.ref]
              IN  /\ vThrew' = ""
                  /\ vRet' \notin Refs
                  /\ vRet' \in DOMAIN heap'
                  /\ heap'[vOp'.ref] = v
                  /\ (v.x.num = 0 /\ v.y.num = 0) =>
                         heap'[vRet'] = [x |-> Num(0), y |-> Num(0)]
        /\ vOp'.op = "normalize3" =>
              LET this == [x |-> heap[vOp'.ref].x, y |-> heap[vOp'.ref].y,
                           z |-> Num(vOp'.arg)]
                  zero == this.x.num = 0 /\ this.y.num = 0 /\ this.z.num = 0
              IN  /\ vThrew' = ""
                  /\ heap3'[1] = this
                  /\ vRet' \in DOMAIN heap3'
                  /\ zero <=> vRet' = 1 ]_vars

\* Vector3 (0,0,0) has been normalized and the call returned the receiver.
C16_Witness ==
    /\ vOp.op = "normalize3"
    /\ heap3[1] = [x |-> Num(0), y |-> Num(0), z |-> Num(0)]
    /\ vRet = 1
    /\ Len(heap3) = 1

\* C17: divide(s) throws "Cannot divide by zero" exactly when s is 0; when
\* it throws, the receiver keeps its x and y and nothing is returned.
C17_Divide ==
    [][ vOp'.op = "divide" =>
            /\ vThrew' = "Cannot divide by zero" <=> vOp'.arg = 0
            /\ vOp'.arg # 0 => vThrew' = "" /\ vRet' \in DOMAIN heap'
            /\ vThrew' # "" =>
                  /\ heap'[vOp'.ref] = heap[vOp'.ref]
                  /\ vRet' = 0
                  /\ heap' = Pool(heap) ]_vars

\* (1,1) has been divided by 0 and the call threw.
C17_Witness ==
    /\ vOp.op = "divide"
    /\ vOp.arg = 0
    /\ heap[vOp.ref] = [x |-> Num(1), y |-> Num(1)]
    /\ vThrew = "Cannot divide by zero"

\* The sum of the integers of a sequence.
RECURSIVE SumOf(_)
SumOf(ns) == IF ns = <<>> THEN 0 ELSE Head(ns) + SumOf(Tail(ns))

\* C18: center(vs) throws "No vectors provided." exactly when vs is empty;
\* otherwise it returns a new vector c with c.x * |vs| the sum of the x
\* components and c.y * |vs| the sum of the y components, and every vector
\* of vs keeps its components.
C18_Center ==
    [][ vOp'.op = "center" =>
            LET vs == vOp'.coll
                n == Len(vs)
                sumX == SumOf([i \in DOMAIN vs |-> heap[vs[i]].x.num])
                sumY == SumOf([i \in DOMAIN vs |-> heap[vs[i]].y.num])
            IN  /\ vThrew' = "No vectors provided." <=> n = 0
                /\ n = 0 => vRet' = 0
                /\ n # 0 =>
                      /\ vThrew' = ""
                      /\ vRet' \notin Refs
                      /\ vRet' \in DOMAIN heap'
                      /\ NumEq(Times(heap'[vRet'].x, Num(n)), Num(sumX))
                      /\ NumEq(Times(heap'[vRet'].y, Num(n)), Num(sumY))
                /\ \A i \in DOMAIN vs : heap'[vs[i]] = heap[vs[i]] ]_vars

\* The centre of (1,0) and (0,0) has been taken: (1/2, 0).
C18_Witness ==
    /\ vOp.op = "center"
    /\ Len(vOp.coll) = 2
    /\ heap[vOp.coll[1]] = [x |-> Num(1), y |-> Num(0)]
    /\ heap[vOp.coll[2]] = [x |-> Num(0), y |-> Num(0)]
    /\ vRet > NumVecs
    /\ NumEq(heap[vRet].x, Quot(1, 4))
    /\ NumEq(heap[vRet].y, Num(0))

\* The squared distance from the vector at r to the vector at q.
SquaredDistance(h, r, q) ==
    (h[r].x.num - h[q].x.num) * (h[r].x.num - h[q].x.num)
        + (h[r].y.num - h[q].y.num) * (h[r].y.num - h[q].y.num)

\* C20: q.getClosestVector(C) returns null when C is empty; otherwise it
\* returns the element of C itself at the lowest position among those whose
\* squared distance to q is the least.
C20_Closest ==
    [][ vOp'.op = "getClosestVector" =>
            LET C == vOp'.coll
                q == vOp'.ref
            IN  /\ vThrew' = ""
                /\ C = <<>> => vRet' = 0
                /\ C # <<>> =>
                      \E i \in DOMAIN C :
                          /\ vRet' = C[i]
                          /\ \A j \in DOMAIN C :
                                SquaredDistance(heap, C[j], q)
                                    >= SquaredDistance(heap, C[i], q)
                          /\ \A j \in 1..(i - 1) :
                                SquaredDistance(heap, C[j], q)
                                    > SquaredDistance(heap, C[i], q) ]_vars

\* C holds (1,1) and then two vectors at (0,0), the second of them q itself:
\* both are at distance 0 and the call returned the first of the two.
C20_Witness ==
    /\ vOp.op = "getClosestVector"
    /\ vOp.coll = <<1, 2, 3>>
    /\ vOp.ref = 3
    /\ heap[1] = [x |-> Num(1), y |-> Num(1)]
    /\ heap[2] = [x |-> Num(0), y |-> Num(0)]
    /\ heap[3] = [x |-> Num(0), y |-> Num(0)]
    /\ vRet = 2

----------------------------------------------------------------------------
(* median and medianPoint: properties *)

\* How many times v occurs in the sequence ns.
Count(ns, v) == Cardinality({i \in DOMAIN ns : ns[i] = v})

\* The numerically ascending arrangement of the numbers of ns.
Ascending(ns) ==
    CHOOSE s \in [DOMAIN ns -> Range(ns)] :
        /\ \A i, j \in DOMAIN s : i < j => s[i] <= s[j]
        /\ \A v \in Range(ns) : Count(s, v) = Count(ns, v)

\* m is the median of ns: 0 of none, the middle one of the ascending
\* arrangement of an odd number, the mean of its two middle ones of an
\* even number.
IsMedian(ns, m) ==
    LET n == Len(ns)
        s == Ascending(ns)
    IN  /\ n = 0 => m = Num(0)
        /\ n % 2 = 1 => m = Num(s[(n + 1) \div 2])
        /\ (n # 0 /\ n % 2 = 0) =>
              NumEq(Times(m, Num(2)), Num(s[n \div 2] + s[n \div 2 + 1]))

\* C19: median returns 0 for an empty array, the middle element of the
\* ascending sort for an odd length and the mean of the two middle elements
\* for an even length; medianPoint returns the point whose x is the median
\* of the x values and whose y is the median of the y values.
C19_Median ==
    [][ /\ mOp'.op = "median" => IsMedian(values, mRet')
        /\ mOp'.op = "medianPoint" =>
              /\ IsMedian([i \in DOMAIN points |-> points[i].x], mRet'.x)
              /\ IsMedian([i \in DOMAIN points |-> points[i].y], mRet'.y)
      ]_vars

\* median([2, 0, 1, 0]) has returned 1/2.
C19_Witness ==
    /\ mOp = MCall("median", <<2, 0, 1, 0>>)
    /\ NumEq(mRet, Quot(1, 4))

----------------------------------------------------------------------------
(* median and medianPoint: what they leave of the caller's array *)

\* C22: median(values) and medianPoint(points) leave the array the caller
\* passed with the same elements in the same order.
C22_Pure ==
    [][ mOp'.op \in {"median", "medianPoint"} =>
            /\ values' = values
            /\ points' = points ]_vars

----------------------------------------------------------------------------
(* douglasPeucker: the split *)

\* The call just made: the path handed over, the tolerance, the result.
\* The first call of a caller that has made two is the call just made in
\* the state before, where path, epsilon and out were the same.
DPCalls ==
    IF dpPc = "once"
    THEN {[path |-> path, epsilon |-> epsilon, out |-> out]}
    ELSE IF dpPc = "twice"
         THEN {[path |-> path2, epsilon |-> epsilon2, out |-> out2]}
         ELSE {}

\* The distance of the interior point p[i] to the line through the ends.
Dist(p, i) == perpendicularDistance(p[i], p[1], p[Len(p)])

Interior(p) == 2..(Len(p) - 1)

\* The distances of the interior points.
Dists(p) == [i \in Interior(p) |-> Dist(p, i)]

\* The interior points no other interior point is further away than, the
\* distances being d.
MaxAmong(p, d) ==
    {i \in Interior(p) :
        /\ ~IsNaN(d[i])
        /\ \A j \in Interior(p) : ~Greater(d[j], d[i])}

\* The interior points no other interior point is further away than (the
\* distances are worked out once).
MaxAt(p) == UNION {MaxAmong(p, d) : d \in {Dists(p)}}

\* The lowest index of a non-empty set of indices.
Lowest(m) == CHOOSE i \in m : \A j \in m : i <= j

FirstMax(p) == Lowest(MaxAt(p))

\* The path is split: some interior point is further than the tolerance.
Splits(p, eps) ==
    /\ Len(p) >= 3
    /\ \E m \in {MaxAt(p)} :
          /\ m # {}
          /\ Greater(Dist(p, Lowest(m)), Tolerance(eps))

\* The split of the call c is at the lowest of the indices in m, and that
\* point is in the output.
TieBreak(c, m) ==
    (/\ Len(c.path) >= 3
     /\ Cardinality(m) >= 2
     /\ Greater(Dist(c.path, Lowest(m)), Tolerance(c.epsilon))) =>
        /\ findFurthestPoint(c.path, c.epsilon) = Lowest(m) - 1
        /\ c.path[Lowest(m)] \in Range(c.out)

\* C24: ties.  When several interior points are at the same, largest
\* distance and it exceeds the tolerance, the split is at the one of lowest
\* index, and that point is in the output: so it is for every call made.
C24_TieBreak ==
    \A c \in DPCalls : \A m \in {MaxAt(c.path)} : TieBreak(c, m)

\* (0,0), (0,1), (1,1), (2,0) with tolerance 1/2: (0,1) and (1,1) are both
\* at distance 1; the first is kept, the second is dropped by the call on
\* the right part.
C24_Witness ==
    /\ dpPc = "once"
    /\ epsilon = 1
    /\ Len(path) = 4
    /\ MaxAt(path) = {2, 3}
    /\ Splits(path, epsilon)
    /\ out = <<path[1], path[2], path[4]>>

\* The output of the call c, split at index k, is the result for the part
\* up to k without its last element, followed by the result for the part
\* from k on.
SplitMerge(c, k) ==
    LET left == douglasPeucker(SubSeq(c.path, 1, k), c.epsilon)
        right == douglasPeucker(SubSeq(c.path, k, Len(c.path)), c.epsilon)
    IN  /\ c.out = SubSeq(left, 1, Len(left) - 1) \o right
        /\ Cardinality({i \in DOMAIN c.out : c.out[i] = c.path[k]}) = 1
        /\ Len(c.out) = Len(left) + Len(right) - 1

\* C25: split and merge.  When the largest interior distance of a path of
\* at least 3 points exceeds the tolerance, first at index k, the output is
\* the result for path[0..k] without its last element, followed by the
\* result for path[k..end]: path[k] is in it once, and its length is the
\* sum of the two lengths less one.  So it is for every call made.
C25_SplitMerge ==
    \A c \in DPCalls :
        Splits(c.path, c.epsilon) =>
            \A k \in {FirstMax(c.path)} : SplitMerge(c, k)

\* A path of four points was split at its third point and both parts kept
\* their interior point: nothing was dropped.
C25_Witness ==
    /\ dpPc = "once"
    /\ Len(path) = 4
    /\ Splits(path, epsilon)
    /\ FirstMax(path) = 3
    /\ out = path

\* C26: a path of at least 3 points whose first and last points have the
\* same coordinates: every interior distance is 0/0, no furthest point is
\* found, and the result is [first, last] whatever the tolerance.
C26_ZeroLength ==
    \A c \in DPCalls :
        (/\ Len(c.path) >= 3
         /\ c.path[1].x = Last(c.path).x
         /\ c.path[1].y = Last(c.path).y) =>
            /\ \A i \in Interior(c.path) : IsNaN(Dist(c.path, i))
            /\ findFurthestPoint(c.path, c.epsilon) = -1
            /\ c.out = <<c.path[1], Last(c.path)>>

\* (0,0), (2,1), (0,0) was simplified with tolerance 0 and lost (2,1).
C26_Witness ==
    /\ dpPc = "once"
    /\ epsilon = 0
    /\ Len(path) = 3
    /\ path[1].x = 0 /\ path[1].y = 0
    /\ path[2].x = MaxX /\ path[2].y = MaxY
    /\ path[3].x = 0 /\ path[3].y = 0
    /\ out = <<path[1], path[3]>>

----------------------------------------------------------------------------
(* PriorityQueue: conservation *)

Pairs == [item : Items, priority : Priorities]

\* C27: the pairs held are those enqueued since the last clear less those
\* dequeued since, each as many times; size() is their number and isEmpty()
\* is size() = 0; a dequeue on a queue that holds something takes exactly
\* one pair away.
C27_Conservation ==
    [][ /\ \A pr \in Pairs : Count(items', pr) = held'[pr]
        /\ \A i \in DOMAIN items' : items'[i] \in Pairs
        /\ size(items') = Len(items')
        /\ isEmpty(items') <=> size(items') = 0
        /\ (lastOp' = "dequeue" /\ Len(items) > 0) =>
              /\ size(items') = size(items) - 1
              /\ \E pr \in Pairs :
                    /\ pr.item = ret'
                    /\ Count(items', pr) = Count(items, pr) - 1
                    /\ \A other \in Pairs \ {pr} :
                          Count(items', other) = Count(items, other)
        /\ lastOp' = "peek" => items' = items
        /\ lastOp' = "clear" => items' = <<>>
      ]_vars

\* Four pairs were enqueued, two of them the same, and a dequeue took one
\* of the two away by sifting down.
C27_Witness ==
    /\ lastOp = "dequeue"
    /\ Len(items) = 3
    /\ Count(items, [item |-> "A", priority |-> 2]) = 1
    /\ held[[item |-> "A", priority |-> 2]] = 1
    /\ Count(items, [item |-> "B", priority |-> 3]) = 2

----------------------------------------------------------------------------
(* radiansToDegreesNormalized: its range *)

\* C23: for every finite angle, positive, negative or beyond a full turn,
\* the value d returned satisfies 0 <= d < 360.
C23_Range ==
    mOp.op = "radiansToDegreesNormalized" =>
        (0 <= mRet.num /\ mRet.num < 360)

----------------------------------------------------------------------------
(* EventEmitter: properties *)

\* The invocations of the listeners of list, in order, each with arg.
Delivery(list, arg) ==
    [k \in DOMAIN list |-> [listener |-> list[k], arg |-> arg]]

\* C28: delivery list.  Outside an emit the listeners the emitter holds for
\* an event are the list got by appending l at every on(e, l) and deleting
\* every l at every off(e, l); an emit(e, arg) during which no listener calls
\* on or off invokes exactly them, in order, each with arg (n times what was
\* registered n times, nothing of another event); off and emit for an event
\* with no registrations change nothing and invoke nothing.
C28_Delivery ==
    [][ /\ ~emitting'.active =>
              \A e \in Events : listeners'[e].list = registered'[e]
        /\ (eeOp'.op = "emitted" /\ ~reentered') =>
              /\ calls' = Delivery(registered'[eeOp'.event], eeOp'.arg)
              /\ listeners' = listeners
        /\ (eeOp'.op = "emit" /\ ~emitting.active
                /\ registered[eeOp'.event] = <<>>) =>
              /\ calls' = <<>>
              /\ registered' = registered
              /\ \A e \in Events : listeners'[e].list = listeners[e].list
              /\ ~MoreToVisit(emitting')
        /\ (eeOp'.op = "off" /\ ~emitting.active
                /\ registered[eeOp'.event] = <<>>) =>
              \A e \in Events : listeners'[e].list = listeners[e].list
      ]_vars

\* l1 was registered twice for e1 with l2 in between, l2 also for e2, and
\* emit(e1, y) invoked l1, l2, l1 with y.
C28_Witness ==
    /\ eeOp.op = "emitted"
    /\ eeOp.event = "e1"
    /\ ~reentered
    /\ registered["e1"] = <<"l1", "l2", "l1">>
    /\ registered["e2"] = <<"l2">>
    /\ calls = Delivery(<<"l1", "l2", "l1">>, "y")

\* C29: snapshot.  The listeners one emit(e) invokes are those registered
\* for e when it was called, in that order, whatever on and off calls the
\* listeners make while it runs; when it has returned, the emitter holds
\* the list with those calls applied, for the next emit.
C29_Snapshot ==
    [][ /\ emitting'.active =>
              /\ Len(calls') <= Len(atEmit')
              /\ calls' = Delivery(SubSeq(atEmit', 1, Len(calls')),
                                   emitting'.arg)
        /\ eeOp'.op = "emitted" =>
              /\ calls' = Delivery(atEmit', eeOp'.arg)
              /\ \A e \in Events : listeners'[e].list = registered'[e]
      ]_vars

\* emit(e1) was called with l1, l2 registered; l1 called off(e1, l2) and l2
\* called on(e1, l1): l2 was still invoked, the new l1 was not, and the
\* emitter now holds l1, l1.
C29_Witness ==
    /\ eeOp.op = "emitted"
    /\ eeOp.event = "e1"
    /\ reentered
    /\ atEmit = <<"l1", "l2">>
    /\ calls = Delivery(<<"l1", "l2">>, eeOp.arg)
    /\ listeners["e1"].list = <<"l1", "l1">>

----------------------------------------------------------------------------
(* FormationManager: properties *)

\* C30: after any loads, getTemplate(id) is the template of that id loaded
\* last, null for an id never loaded, and isFriendlyFireImmune(id, d) is
\* true exactly when that template exists and lists d in its
\* friendlyFireImmuneDamageTypes.
C30_Consistent ==
    \A id \in Ids :
        LET t == getTemplate(formationMap, id)
        IN  /\ t = latest[id]
            /\ \A d \in DamageTypes :
                  isFriendlyFireImmune(immuneTypes, id, d)
                      <=> /\ t.has
                          /\ t.value.friendlyFireImmuneDamageTypes.defined
                          /\ d \in Range(t.value.friendlyFireImmuneDamageTypes.list)

----------------------------------------------------------------------------
(* Vector2: what the calls leave of their vectors *)

NonMutating ==
    {"add", "subtract", "scale", "divide", "perp", "normalize", "round",
     "floor", "interpolate", "rotate", "clone", "toArray", "toPoint",
     "getClosestVector"}

\* The calls that make the vector they return.
Making == NonMutating \ {"toArray", "toPoint", "getClosestVector"}

\* The caller's vectors keep their x and y.
Untouched == \A r \in Refs : heap'[r] = heap[r]

\* addValue(dx, dy) sets the receiver to (x + dx, y + dy), nothing else.
AddValueEffect ==
    vOp'.op = "addValue" =>
        /\ heap'[vOp'.ref].x = Num(heap[vOp'.ref].x.num + vOp'.coll[1])
        /\ heap'[vOp'.ref].y = Num(heap[vOp'.ref].y.num + vOp'.coll[2])
        /\ \A r \in Refs \ {vOp'.ref} : heap'[r] = heap[r]

\* C21 as claimed: add, subtract, scale, divide, perp, normalize, round,
\* floor, interpolate, rotate, clone, toArray, toPoint and getClosestVector
\* leave the x and y of the receiver and of every argument vector as they
\* were, every one of them that returns a vector returns an instance other
\* than the receiver, and addValue(dx, dy) sets the receiver to
\* (x + dx, y + dy).
C21_FrameAsClaimed ==
    [][ /\ vOp'.op \in NonMutating => Untouched
        /\ (vOp'.op \in NonMutating \ {"toArray", "toPoint"} /\ vRet' # 0) =>
              vRet' # vOp'.ref
        /\ AddValueEffect ]_vars

\* C21, amended: as claimed, but the instance returned is a new one, other
\* than the receiver, only for the calls that make their result;
\* getClosestVector returns null or an element of the collection, which is
\* the receiver when the receiver is in the collection and closest.
C21_Frame ==
    [][ /\ vOp'.op \in NonMutating => Untouched
        /\ (vOp'.op \in Making /\ vRet' # 0) =>
              /\ vRet' # vOp'.ref
              /\ vRet' \notin Refs
              /\ vRet' \in DOMAIN heap'
        /\ vOp'.op = "getClosestVector" =>
              \/ vRet' = 0 /\ vOp'.coll = <<>>
              \/ vRet' \in Range(vOp'.coll)
        /\ AddValueEffect ]_vars

\* (1,1).add((1,0)) has returned a new vector (2,1) and (1,1) is as it was.
C21_Witness ==
    /\ vOp.op = "add"
    /\ heap[vOp.ref] = [x |-> Num(1), y |-> Num(1)]
    /\ heap[vOp.coll[1]] = [x |-> Num(1), y |-> Num(0)]
    /\ vRet > NumVecs
    /\ heap[vRet] = [x |-> Num(2), y |-> Num(1)]

=========================================================================
